---- MODULE Spec2Model ----
(***************************************************************************)
(* Two-Dashboard AI Feedback System.                                       *)
(*                                                                         *)
(*   pages/1_User_Dashboard.py   the submission form: validation, two      *)
(*                               model calls, save_review (read the whole  *)
(*                               CSV, add one row, write the whole CSV)    *)
(*   pages/2_Admin_Dashboard.py  the dashboard: load_data behind a 30 s    *)
(*                               cache, filters, sort, exports, Refresh    *)
(*                               and Clear All Data                        *)
(*                                                                         *)
(* A text is a sequence of chunks: the chunk " " is a run of whitespace,   *)
(* any other chunk is a run of non-blank characters.  The CSV file is a    *)
(* sequence of rows of cell texts, as written by DataFrame.to_csv; a       *)
(* DataFrame is a sequence of rows of Python values, as pandas.read_csv    *)
(* builds them.  Time is in whole seconds.                                 *)
(***************************************************************************)
EXTENDS Integers, Sequences, FiniteSets, TLC

VARIABLES
    DATA_FILE,  \* data/reviews.csv: the rows below the header, as cell texts
    now,        \* the wall clock, in seconds
    ticks,      \* how many times the clock has advanced (bounds the model)
    cache,      \* the st.cache_data entry of load_data
    dash,       \* what the last run of the Admin Dashboard script produced
    sess,       \* per user session: the state of its run of the User Dashboard
    an          \* an isolated call of generate_summary_and_actions

vars == <<DATA_FILE, now, ticks, cache, dash, sess, an>>

-----------------------------------------------------------------------------
(* Bounds of the model.                                                    *)

MaxRows == 2

MaxTicks == 2

-----------------------------------------------------------------------------
(* Texts and Python values.                                                *)

SPACE == " "

RECURSIVE lstrip(_)
lstrip(t) == IF t # <<>> /\ Head(t) = SPACE THEN lstrip(Tail(t)) ELSE t

RECURSIVE rstrip(_)
rstrip(t) ==
    IF t # <<>> /\ t[Len(t)] = SPACE THEN rstrip(SubSeq(t, 1, Len(t) - 1)) ELSE t

\* str.strip()
strip(t) == rstrip(lstrip(t))

\* A Python object held in a variable or in a DataFrame cell.
PyStr(t) == [kind |-> "str", val |-> t]
PyNone == [kind |-> "None", val |-> <<>>]
NaN == [kind |-> "nan", val |-> <<>>]

-----------------------------------------------------------------------------
(* The model endpoint's answers.  An answer either raises or carries the   *)
(* completion.  A reply completion is a text.  A structured completion is  *)
(* a sequence of segments: a code-fence marker or the text between the     *)
(* markers, which is a JSON document or not.  FENCE_JSON is the marker of  *)
(* three backquotes followed by json, FENCE the one of three backquotes.   *)

Completion(c) == [raises |-> FALSE, content |-> c]
Raises == [raises |-> TRUE, content |-> <<>>]

FENCE_JSON == [seg |-> "fence_json", doc |-> "-", summary |-> PyNone, recommended_actions |-> PyNone]
FENCE == [seg |-> "fence", doc |-> "-", summary |-> PyNone, recommended_actions |-> PyNone]

\* A member of a JSON object: absent, null or a string.
ABSENT == [kind |-> "absent", val |-> <<>>]

\* The text between the markers: doc is "invalid" (no JSON document),
\* "array", "string", "null" (a JSON document that is no object) or "object".
Body(doc, s, a) == [seg |-> "text", doc |-> doc, summary |-> s, recommended_actions |-> a]

NotJson == Body("invalid", ABSENT, ABSENT)

\* content.startswith(prefix) for the two prefixes the code tests
startswith_fence_json(content) == content # <<>> /\ content[1] = FENCE_JSON
startswith_fence(content) == content # <<>> /\ content[1] \in {FENCE, FENCE_JSON}

\* content.split(marker)[1].split(marker3)[0]: the text after the opening
\* marker, up to the next marker; the empty string when nothing follows.
after_fence(content) ==
    IF Len(content) >= 2 /\ content[2].seg = "text" THEN content[2] ELSE NotJson

\* content itself when it opens with no marker; json.loads sees every
\* character of it, so a marker further on makes it no JSON document.
unfenced(content) ==
    IF Len(content) = 1 /\ content[1].seg = "text" THEN content[1] ELSE NotJson

SUMMARY_DEFAULT == PyStr(<<"Summary", SPACE, "not", SPACE, "available">>)
ACTIONS_DEFAULT == PyStr(<<"Actions", SPACE, "not", SPACE, "available">>)

\* dict.get(key) with the default left out
dict_get_no_default(member, default) ==
    IF member = ABSENT THEN PyNone ELSE member

\* dict.get(key, default) on the decoded object
dict_get(member, default) ==
    IF member = ABSENT THEN default ELSE member

fallback_summary(rating) ==
    PyStr(<<ToString(rating) \o "-star", SPACE, "review", SPACE, "requiring", SPACE, "attention">>)

FALLBACK_ACTIONS ==
    PyStr(<<"Review", SPACE, "manually", SPACE, "and", SPACE, "respond", SPACE, "appropriately">>)

Fallback(rating) == <<fallback_summary(rating), FALLBACK_ACTIONS>>

\* The try block of generate_summary_and_actions, given the completion.
parse_summary_and_actions(rating, content) ==
    LET body == IF startswith_fence_json(content) THEN after_fence(content)
                ELSE IF startswith_fence(content) THEN after_fence(content)
                ELSE unfenced(content)
    IN  IF body.doc = "object"
        THEN <<dict_get(body.summary, SUMMARY_DEFAULT),
               dict_get(body.recommended_actions, ACTIONS_DEFAULT)>>
        ELSE \* json.loads raised, or data has no .get: the bare except
             Fallback(rating)

\* generate_ai_response, given the completion: response.content.strip()
generate_ai_response(content) == PyStr(strip(content))

-----------------------------------------------------------------------------
(* The inputs.                                                             *)

\* options=[1, 2, 3, 4, 5] of the rating slider and of the rating filter
RATING_OPTIONS == 1..5

JSON_MEMBERS(t) == {ABSENT, PyNone, PyStr(t)}

\* Every text between markers the analysis is tried on.
BODIES ==
    {Body(d, ABSENT, ABSENT) : d \in {"invalid", "array", "string", "null"}}
    \cup {Body("object", s, a) : s \in JSON_MEMBERS(<<"s">>), a \in JSON_MEMBERS(<<"a">>)}

\* Every structured completion the analysis is tried on: bare, fenced with
\* either marker, a marker with nothing after it, and nothing at all.
CONTENTS ==
    {<<b>> : b \in BODIES}
    \cup {<<f, b, FENCE>> : f \in {FENCE, FENCE_JSON}, b \in BODIES}
    \cup {<<f, b>> : f \in {FENCE, FENCE_JSON}, b \in BODIES}
    \cup {<<>>, <<FENCE>>, <<FENCE_JSON>>}
    \cup {<<b, FENCE, b, FENCE>> : b \in {Body("object", PyStr(<<"s">>), PyStr(<<"a">>))}}

VALID_ANSWER ==
    Completion(<<FENCE_JSON, Body("object", PyStr(<<"s">>), PyStr(<<"a">>)), FENCE>>)

NULL_SUMMARY_ANSWER == Completion(<<Body("object", PyNone, PyStr(<<"a">>))>>)

THANKS == Completion(<<"Thanks", SPACE>>)

\* Ratings whole submissions are tried with: the two on either side of the
\* line between critical and not.
SUBMIT_RATINGS == {2, 3}

\* What whole submissions are tried with: the review text and the two
\* completions (or failures) of the model endpoint.
Submission(review_text, reply, struct) ==
    [review_text |-> review_text, reply |-> reply, struct |-> struct]

SUBMISSIONS ==
    {Submission(<<>>, THANKS, VALID_ANSWER),
     Submission(<<SPACE>>, THANKS, VALID_ANSWER),
     Submission(<<"ok">>, Raises, VALID_ANSWER),
     Submission(<<"ok">>, THANKS, Raises),
     Submission(<<"ok">>, THANKS, VALID_ANSWER),
     Submission(<<"NA">>, THANKS, VALID_ANSWER),
     Submission(<<"ok">>, Completion(<<SPACE>>), VALID_ANSWER),
     Submission(<<"ok">>, THANKS, NULL_SUMMARY_ANSWER)}

-----------------------------------------------------------------------------
(* pandas: the CSV file and the DataFrame.                                 *)

\* Cell texts read_csv takes for a missing value (its default na_values),
\* among the texts of this model.
NA_VALUES == {<<>>, <<"NA">>}

\* read_csv on one cell of a text column
read_cell(t) == IF t \in NA_VALUES THEN NaN ELSE PyStr(t)

\* to_csv on one cell: na_rep is "" for NaN and None, a string is written
\* as it is (quoted where needed)
to_csv_cell(v) == IF v.kind = "str" THEN v.val ELSE <<>>

\* pd.read_csv(DATA_FILE): one DataFrame row per line, index 0, 1, ...
\* The timestamp and rating cells hold "%Y-%m-%d %H:%M:%S" and decimal
\* digits, which read back as the second and the integer written.
read_csv(file) ==
    [i \in 1..Len(file) |->
        [index |-> i - 1,
         timestamp |-> file[i].timestamp,
         rating |-> file[i].rating,
         review |-> read_cell(file[i].review),
         ai_response |-> read_cell(file[i].ai_response),
         ai_summary |-> read_cell(file[i].ai_summary),
         recommended_actions |-> read_cell(file[i].recommended_actions)]]

\* df.to_csv(..., index=False)
to_csv(df) ==
    [i \in 1..Len(df) |->
        [timestamp |-> df[i].timestamp,
         rating |-> df[i].rating,
         review |-> to_csv_cell(df[i].review),
         ai_response |-> to_csv_cell(df[i].ai_response),
         ai_summary |-> to_csv_cell(df[i].ai_summary),
         recommended_actions |-> to_csv_cell(df[i].recommended_actions)]]

\* pd.concat([df, pd.DataFrame([new_row])], ignore_index=True)
concat(df, new_row) ==
    [i \in 1..(Len(df) + 1) |->
        [(IF i <= Len(df) THEN df[i] ELSE new_row) EXCEPT !.index = i - 1]]

\* The dict new_row of save_review, as the one row of pd.DataFrame([new_row]).
new_row(t, rating, review, ai_response, ai_summary, recommended_actions) ==
    [index |-> 0,
     timestamp |-> t,
     rating |-> rating,
     review |-> PyStr(review),
     ai_response |-> ai_response,
     ai_summary |-> ai_summary,
     recommended_actions |-> recommended_actions]

\* The last two statements of save_review, on the DataFrame it has read.
save_write(df, row) == to_csv(concat(df, row))

\* save_review run without interruption: the file it leaves.
save_review(file, row) == save_write(read_csv(file), row)

-----------------------------------------------------------------------------
(* The User Dashboard: one run of the script with the form submitted.      *)

Users == {"u1", "u2"}

IdleSession ==
    [pc |-> "idle", outcome |-> "none", reply |-> PyNone, calls |-> 0,
     df |-> <<>>, pending |-> <<>>]

\* generate_summary_and_actions: chain.invoke is outside the try block, so
\* its exception leaves the function; everything after it is inside.
generate_summary_and_actions(rating, answer) ==
    IF answer.raises
    THEN [raised |-> TRUE, value |-> <<>>]
    ELSE [raised |-> FALSE, value |-> parse_summary_and_actions(rating, answer.content)]

\* The handler with the test of review_text.strip() left out.
handler_unvalidated(t, rating, review_text, reply, struct) ==
    IF reply.raises
    THEN [outcome |-> "failed", calls |-> 1, pending |-> <<>>]
    ELSE LET analysis == generate_summary_and_actions(rating, struct)
         IN  IF analysis.raised
             THEN [outcome |-> "failed", calls |-> 2, pending |-> <<>>]
             ELSE [outcome |-> "ok", calls |-> 2,
                   pending |-> <<new_row(t, rating, review_text,
                                         generate_ai_response(reply.content),
                                         analysis.value[1], analysis.value[2])>>]

\* The handler up to the call of save_review: which branch it takes, the
\* number of model calls made, and the row save_review is called with.
handler(t, rating, review_text, reply, struct) ==
    IF strip(review_text) = <<>>
    THEN [outcome |-> "invalid", calls |-> 0, pending |-> <<>>]
    ELSE IF reply.raises
    THEN [outcome |-> "failed", calls |-> 1, pending |-> <<>>]
    ELSE LET analysis == generate_summary_and_actions(rating, struct)
         IN  IF analysis.raised
             THEN [outcome |-> "failed", calls |-> 2, pending |-> <<>>]
             ELSE [outcome |-> "ok", calls |-> 2,
                   pending |-> <<new_row(t, rating, review_text,
                                         generate_ai_response(reply.content),
                                         analysis.value[1], analysis.value[2])>>]

\* save_review reading the file again at the moment it writes.
frame_reread(u) == read_csv(DATA_FILE)

\* The DataFrame the last two statements of save_review work on: the local
\* df read at the first statement, however long ago that was.
frame_to_write(u) == sess[u].df

\* A submission that nothing interleaves with: the whole handler.
Submit(u, rating, review_text, reply, struct) ==
    /\ sess[u].pc = "idle"
    /\ Len(DATA_FILE) < MaxRows
    /\ LET h == handler(now, rating, review_text, reply, struct)
       IN  IF h.outcome = "ok"
           THEN /\ DATA_FILE' = save_review(DATA_FILE, h.pending[1])
                /\ sess' = [sess EXCEPT ![u] =
                      [pc |-> "idle", outcome |-> "ok", reply |-> h.pending[1].ai_response,
                       calls |-> h.calls, df |-> read_csv(DATA_FILE), pending |-> <<>>]]
           ELSE /\ DATA_FILE' = DATA_FILE
                /\ sess' = [sess EXCEPT ![u] =
                      [pc |-> "idle", outcome |-> h.outcome, reply |-> PyNone,
                       calls |-> h.calls, df |-> <<>>, pending |-> <<>>]]
    /\ UNCHANGED <<now, ticks, cache, dash, an>>

\* A submission other sessions may interleave with, first part: the handler
\* through the first statement of save_review (df = pd.read_csv(DATA_FILE)).
Begin(u, rating, review_text, reply, struct) ==
    /\ sess[u].pc = "idle"
    /\ Len(DATA_FILE) < MaxRows
    /\ LET h == handler(now, rating, review_text, reply, struct)
       IN  IF h.outcome = "ok"
           THEN sess' = [sess EXCEPT ![u] =
                      [pc |-> "saving", outcome |-> "none", reply |-> PyNone,
                       calls |-> h.calls, df |-> read_csv(DATA_FILE), pending |-> h.pending]]
           ELSE sess' = [sess EXCEPT ![u] =
                      [pc |-> "idle", outcome |-> h.outcome, reply |-> PyNone,
                       calls |-> h.calls, df |-> <<>>, pending |-> <<>>]]
    /\ UNCHANGED <<DATA_FILE, now, ticks, cache, dash, an>>

\* Second part: concat, to_csv, then the success message and the reply.
Write(u) ==
    /\ sess[u].pc = "saving"
    /\ DATA_FILE' = save_write(frame_to_write(u), sess[u].pending[1])
    /\ sess' = [sess EXCEPT ![u] =
          [pc |-> "idle", outcome |-> "ok", reply |-> sess[u].pending[1].ai_response,
           calls |-> sess[u].calls, df |-> sess[u].df, pending |-> <<>>]]
    /\ UNCHANGED <<now, ticks, cache, dash, an>>

-----------------------------------------------------------------------------
(* An isolated call of generate_summary_and_actions.                       *)

IdleAnalysis == [pc |-> "idle", rating |-> 0, answer |-> Raises,
                 result |-> [raised |-> FALSE, value |-> <<>>]]

Analyze ==
    /\ an.pc = "call"
    /\ an' = [an EXCEPT !.pc = "returned",
                        !.result = generate_summary_and_actions(an.rating, an.answer)]
    /\ UNCHANGED <<DATA_FILE, now, ticks, cache, dash, sess>>

-----------------------------------------------------------------------------
(* The Admin Dashboard: one run of the script.                             *)

\* @st.cache_data(ttl=30)
TTL == 30

\* timedelta(days=1), in seconds
DAY == 24 * 60 * 60

DATE_FILTERS == {"All Time", "Today", "Last 7 Days", "Last 30 Days"}

SORT_ORDERS == {"Newest First", "Oldest First", "Highest Rating", "Lowest Rating"}

\* What the admin clicked to cause the run: nothing (a widget change or a
\* first visit) or one of the three buttons.
CLICKS == {"none", "refresh", "clear", "confirm"}

\* Selections of the rating multiselect the model tries.
RATING_FILTERS == {RATING_OPTIONS, {3, 4, 5}}

\* What the three filter widgets hold in a run.
View(rating_filter, date_filter, sort_order) ==
    [rating_filter |-> rating_filter, date_filter |-> date_filter,
     sort_order |-> sort_order]

\* The widgets' defaults: every rating, and the first option of each
\* selectbox.
DEFAULT_VIEW == View(RATING_OPTIONS, "All Time", "Newest First")

\* The views the model tries: every rating and date filter under the
\* default sort, and every sort under the default filters.
VIEWS ==
    {View(r, d, "Newest First") : r \in RATING_FILTERS, d \in DATE_FILTERS}
    \cup {View(RATING_OPTIONS, "All Time", o) : o \in SORT_ORDERS}

\* st.cache_data.clear()
CLEARED == [valid |-> FALSE, at |-> 0, df |-> <<>>]

\* A cache whose entries never expire.
cache_hit_forever(entry, t) == entry.valid

\* Whether load_data's cached value is served at time t: the entry expires
\* ttl seconds after it was stored.
cache_hit(entry, t) == entry.valid /\ t - entry.at < TTL

\* The body of load_data.  to_datetime parses the "%Y-%m-%d %H:%M:%S" text
\* to the second it was written for.
load_data_body(file) == read_csv(file)

\* The date branch of "Apply filters", for one row at time t.
date_passes(date_filter, timestamp, t) ==
    CASE date_filter = "Today" -> timestamp \div DAY = t \div DAY
      [] date_filter = "Last 7 Days" -> timestamp > t - 7 * DAY
      [] date_filter = "Last 30 Days" -> timestamp > t - 30 * DAY
      [] OTHER -> TRUE

\* df[df['rating'].isin(rating_filter)] and the date filter after it
apply_filters(df, rating_filter, date_filter, t) ==
    SelectSeq(df, LAMBDA row :
        row.rating \in rating_filter /\ date_passes(date_filter, row.timestamp, t))

\* Whether row a may stand before row b after sort_values.
in_order(sort_order, a, b) ==
    CASE sort_order = "Newest First" -> a.timestamp >= b.timestamp
      [] sort_order = "Oldest First" -> a.timestamp <= b.timestamp
      [] sort_order = "Highest Rating" -> a.rating >= b.rating
      [] sort_order = "Lowest Rating" -> a.rating <= b.rating
      [] OTHER -> TRUE

\* filtered_df.sort_values(...): the default sort is not stable, so rows
\* with equal keys come out in any order.
sort_values(df, sort_order) ==
    LET n == Len(df)
        perms == {p \in [1..n -> 1..n] : \A i, j \in 1..n : p[i] = p[j] => i = j}
    IN  {[i \in 1..n |-> df[p[i]]] : p \in
            {q \in perms : \A i, j \in 1..n :
                i < j => in_order(sort_order, df[q[i]], df[q[j]])}}

\* row['ai_summary'][:50] in the header of a review's card: a str can be
\* sliced, the float NaN cannot (TypeError, the run ends there).
card_renders(row) == row.ai_summary.kind = "str"

\* The critical slice cut with < in place of <=.
critical_below(filtered_df) == SelectSeq(filtered_df, LAMBDA row : row.rating < 2)

\* filtered_df[filtered_df['rating'] <= 2]
critical_of(filtered_df) == SelectSeq(filtered_df, LAMBDA row : row.rating <= 2)

NoDash ==
    [status |-> "none", at |-> 0, df |-> <<>>, view |-> DEFAULT_VIEW,
     critical |-> <<>>, confirm_shown |-> FALSE]

\* One run of the script, caused by `click`, with the three filter widgets
\* holding rating_filter, date_filter and sort_order.
AdminRun(click, rating_filter, date_filter, sort_order) ==
    \* a button can be clicked only if the last run drew it, and its click
    \* leaves the filter widgets as that run had them (a run that stopped
    \* before drawing them leaves them at their defaults)
    /\ click = "refresh" => dash.status # "none"
    /\ click = "clear" => dash.status = "ok"
    /\ click = "confirm" => dash.confirm_shown
    /\ click # "none" => View(rating_filter, date_filter, sort_order) = dash.view
    /\ LET \* a button reads True only in the run its own click caused
           refresh_button == click = "refresh"
           clear_button == click = "clear"
           confirm_button == click = "confirm"
           \* Refresh: st.cache_data.clear(), st.rerun(); the rerun is a run
           \* with no button clicked
           start == IF refresh_button THEN CLEARED ELSE cache
           hit == cache_hit(start, now)
           df == IF hit THEN start.df ELSE load_data_body(DATA_FILE)
           entry == IF hit THEN start ELSE [valid |-> TRUE, at |-> now, df |-> df]
           run == [status |-> "ok", at |-> now, df |-> df,
                   view |-> View(rating_filter, date_filter, sort_order),
                   critical |-> <<>>, confirm_shown |-> FALSE]
       IN  IF df = <<>>
           THEN \* st.stop() under "No reviews yet"
                /\ dash' = [run EXCEPT !.status = "empty", !.view = DEFAULT_VIEW]
                /\ cache' = entry
                /\ DATA_FILE' = DATA_FILE
           ELSE \E filtered_df \in
                    sort_values(apply_filters(df, rating_filter, date_filter, now), sort_order) :
                IF \E i \in 1..Len(filtered_df) : ~card_renders(filtered_df[i])
                THEN \* the exception ends the run above the export section
                     /\ dash' = [run EXCEPT !.status = "crashed"]
                     /\ cache' = entry
                     /\ DATA_FILE' = DATA_FILE
                ELSE IF ~refresh_button /\ clear_button /\ confirm_button
                THEN \* the body under "Confirm Delete": the file is written
                     \* with the header alone, the cache cleared, and the
                     \* rerun loads the empty file and stops
                     /\ DATA_FILE' = <<>>
                     /\ cache' = [valid |-> TRUE, at |-> now, df |-> <<>>]
                     /\ dash' = [run EXCEPT !.status = "empty", !.df = <<>>,
                                            !.view = DEFAULT_VIEW]
                ELSE /\ dash' = [run EXCEPT !.critical = critical_of(filtered_df),
                                            !.confirm_shown = ~refresh_button /\ clear_button]
                     /\ cache' = entry
                     /\ DATA_FILE' = DATA_FILE
    /\ UNCHANGED <<now, ticks, sess, an>>

-----------------------------------------------------------------------------
(* The clock.                                                              *)

\* The steps the clock is advanced by: half the cache's lifetime and a week.
TICK_STEPS == {TTL \div 2, 7 * DAY}

Tick(d) ==
    /\ ticks < MaxTicks
    /\ now' = now + d
    /\ ticks' = ticks + 1
    /\ UNCHANGED <<DATA_FILE, cache, dash, sess, an>>

-----------------------------------------------------------------------------
(* Specifications.                                                         *)

TypeInit ==
    /\ DATA_FILE = <<>>
    /\ now = 0
    /\ ticks = 0
    /\ cache = CLEARED
    /\ dash = NoDash
    /\ sess = [u \in Users |-> IdleSession]

\* The two pages, one request at a time.
Init == TypeInit /\ an = IdleAnalysis

SubmitStep ==
    \E rating \in SUBMIT_RATINGS, s \in SUBMISSIONS :
        Submit("u1", rating, s.review_text, s.reply, s.struct)

AdminStep ==
    \E click \in CLICKS, v \in VIEWS :
        AdminRun(click, v.rating_filter, v.date_filter, v.sort_order)

TickStep == \E d \in TICK_STEPS : Tick(d)

Next == SubmitStep \/ AdminStep \/ TickStep

Spec == Init /\ [][Next]_vars

\* The User Dashboard alone, one request at a time.
NextUser == SubmitStep \/ TickStep

SpecUser == Init /\ [][NextUser]_vars

\* Two user sessions whose submissions interleave.
BeginStep ==
    \E u \in Users, rating \in SUBMIT_RATINGS, s \in SUBMISSIONS :
        Begin(u, rating, s.review_text, s.reply, s.struct)

WriteStep == \E u \in Users : Write(u)

NextConc == BeginStep \/ WriteStep

SpecConc == Init /\ [][NextConc]_vars

\* generate_summary_and_actions on every rating and structured answer.
InitAnalyze ==
    /\ TypeInit
    /\ an \in {[pc |-> "call", rating |-> r, answer |-> a,
                 result |-> [raised |-> FALSE, value |-> <<>>]] :
                    r \in RATING_OPTIONS,
                    a \in {Raises} \cup {Completion(c) : c \in CONTENTS}}

NextAnalyze == Analyze

SpecAnalyze == InitAnalyze /\ [][NextAnalyze]_vars

-----------------------------------------------------------------------------
(* Properties of the submission handler.                                   *)

Last(seq) == seq[Len(seq)]

IsPrefix(a, b) == Len(a) <= Len(b) /\ SubSeq(b, 1, Len(a)) = a

\* C1: a submission of rating r and a review text t that is non-empty after
\* trimming either shows a non-empty reply and leaves the store one record
\* longer, the new record having rating r and review text t, or reports a
\* failure and leaves the store as it was.
C1_SubmitOutcomes ==
    [][\A rating \in SUBMIT_RATINGS, s \in SUBMISSIONS :
         (strip(s.review_text) # <<>>
            /\ Submit("u1", rating, s.review_text, s.reply, s.struct))
         => \/ /\ sess'["u1"].outcome = "ok"
               /\ sess'["u1"].reply.kind = "str"
               /\ sess'["u1"].reply.val # <<>>
               /\ Len(DATA_FILE') = Len(DATA_FILE) + 1
               /\ Last(DATA_FILE').rating = rating
               /\ Last(DATA_FILE').review = s.review_text
            \/ /\ sess'["u1"].outcome = "failed"
               /\ DATA_FILE' = DATA_FILE]_vars

\* C2: a submission whose review text is empty or blank is rejected with
\* the validation error, makes no model call and leaves the store as it was.
C2_BlankRejected ==
    [][\A rating \in SUBMIT_RATINGS, s \in SUBMISSIONS :
         (strip(s.review_text) = <<>>
            /\ Submit("u1", rating, s.review_text, s.reply, s.struct))
         => /\ sess'["u1"].outcome = "invalid"
            /\ sess'["u1"].calls = 0
            /\ DATA_FILE' = DATA_FILE]_vars

\* A blank submission has been rejected with records in the store.
C2_Witness ==
    /\ sess["u1"].outcome = "invalid"
    /\ sess["u1"].calls = 0
    /\ DATA_FILE # <<>>

-----------------------------------------------------------------------------
(* Properties of generate_summary_and_actions.                             *)

\* The text the structured answer holds once its code fence is taken off.
document(content) ==
    IF startswith_fence(content) THEN after_fence(content) ELSE unfenced(content)

\* The answer decodes into both fields.
decodes(content) ==
    /\ document(content).doc = "object"
    /\ document(content).summary # ABSENT
    /\ document(content).recommended_actions # ABSENT

\* C3 as stated: whenever the structured answer does not decode into both
\* fields (no JSON, JSON that is no object, an object missing a field), the
\* function returns, and returns the fallback pair for its rating.
C3_FallbackOnAnyDecodeFailure ==
    (an.pc = "returned" /\ ~an.answer.raises /\ ~decodes(an.answer.content))
    => /\ ~an.result.raised
       /\ an.result.value = Fallback(an.rating)

\* C3 as amended: the function returns whenever the model answered; an
\* answer that is no JSON or no JSON object gives the fallback pair for the
\* rating; an object gives, for each field, its value, or "Summary not
\* available" / "Actions not available" when the field is missing.
C3_FallbackOrDefaults ==
    (an.pc = "returned" /\ ~an.answer.raises)
    => LET d == document(an.answer.content)
       IN  /\ ~an.result.raised
           /\ d.doc # "object" => an.result.value = Fallback(an.rating)
           /\ d.doc = "object" =>
                /\ an.result.value[1] =
                     (IF d.summary = ABSENT THEN SUMMARY_DEFAULT ELSE d.summary)
                /\ an.result.value[2] =
                     (IF d.recommended_actions = ABSENT THEN ACTIONS_DEFAULT
                      ELSE d.recommended_actions)

\* The function has returned on an object without a summary, with the
\* default summary beside the object's own actions.
C3_Witness ==
    /\ an.pc = "returned"
    /\ ~an.answer.raises
    /\ document(an.answer.content).doc = "object"
    /\ document(an.answer.content).summary = ABSENT
    /\ document(an.answer.content).recommended_actions = PyStr(<<"a">>)
    /\ an.result.value = <<SUMMARY_DEFAULT, PyStr(<<"a">>)>>

-----------------------------------------------------------------------------
(* Properties of the store.                                                *)

\* C4: every record of the store has its six fields populated: a timestamp,
\* a rating from 1 to 5, a review text that is non-empty after trimming, a
\* non-empty ai_response, an ai_summary and a recommended_actions value.
C4_AllFieldsPopulated ==
    \A i \in 1..Len(DATA_FILE) :
        /\ DATA_FILE[i].timestamp \in Nat
        /\ DATA_FILE[i].rating \in RATING_OPTIONS
        /\ strip(DATA_FILE[i].review) # <<>>
        /\ DATA_FILE[i].ai_response # <<>>
        /\ DATA_FILE[i].ai_summary # <<>>
        /\ DATA_FILE[i].recommended_actions # <<>>

\* The six fields of a DataFrame row.
fields(row) ==
    <<row.timestamp, row.rating, row.review, row.ai_response, row.ai_summary,
      row.recommended_actions>>

\* C5: after save_review appends record X, an uncached read of the store
\* returns one row more than before, the last equal to X in all six fields.
C5_RoundTrip ==
    [][\A rating \in SUBMIT_RATINGS, s \in SUBMISSIONS :
         LET h == handler(now, rating, s.review_text, s.reply, s.struct)
         IN  (h.outcome = "ok"
                /\ Submit("u1", rating, s.review_text, s.reply, s.struct))
             => /\ Len(load_data_body(DATA_FILE')) = Len(load_data_body(DATA_FILE)) + 1
                /\ fields(Last(load_data_body(DATA_FILE'))) = fields(h.pending[1])]_vars

-----------------------------------------------------------------------------
(* Properties of the dashboard.                                            *)

\* The run of the dashboard script caused by `click` under view v.
AdminRunWith(click, v) == AdminRun(click, v.rating_filter, v.date_filter, v.sort_order)

\* Some run of the dashboard script caused by `click`.
AdminRunBy(click) == \E v \in VIEWS : AdminRunWith(click, v)

\* C6: once the admin has gone through clear-all (Clear All Data, then
\* Confirm Delete), the store is empty and the dashboard's read returns no
\* record, whatever the store and the cache held.
C6_ClearThenEmpty ==
    [][AdminRunBy("confirm") => (DATA_FILE' = <<>> /\ dash'.df = <<>>)]_vars

\* C7: with one request at a time, every step other than clear-all leaves
\* the store's records as a prefix of what it holds next, and every run of
\* the dashboard that is not clear-all leaves the store as it was.
C7_AppendOnly ==
    [][~AdminRunBy("confirm")
         => /\ IsPrefix(DATA_FILE, DATA_FILE')
            /\ AdminStep => DATA_FILE' = DATA_FILE]_vars

\* The run reads the store: load_data's cached value is not served.
reads_store(click) ==
    ~cache_hit(IF click = "refresh" THEN CLEARED ELSE cache, now)

\* The frame holds a row for record i of the store.
has_record(df, i) ==
    \E k \in 1..Len(df) :
        /\ df[k].index = i - 1
        /\ df[k].timestamp = DATA_FILE[i].timestamp
        /\ df[k].rating = DATA_FILE[i].rating

\* C8 as stated: the critical export of a run that reads the store (a run
\* that reaches the export section records its view in dash.view) holds
\* every record of the store with rating <= 2, and no record with rating >= 3.
C8_CriticalExportHoldsAll ==
    [][\A click \in CLICKS :
         (reads_store(click) /\ dash'.status = "ok" /\ AdminRunWith(click, dash'.view))
         => /\ \A i \in 1..Len(DATA_FILE) :
                 DATA_FILE[i].rating <= 2 => has_record(dash'.critical, i)
            /\ \A k \in 1..Len(dash'.critical) : dash'.critical[k].rating <= 2]_vars

\* C8 as amended: the critical export of a run that reads the store holds
\* every record of the store with rating <= 2 that the run's rating filter
\* selects and its date filter admits, and no record with rating >= 3.
C8_CriticalExportHoldsFiltered ==
    [][\A click \in CLICKS :
         (reads_store(click) /\ dash'.status = "ok" /\ AdminRunWith(click, dash'.view))
         => /\ \A i \in 1..Len(DATA_FILE) :
                 (/\ DATA_FILE[i].rating <= 2
                  /\ DATA_FILE[i].rating \in dash'.view.rating_filter
                  /\ date_passes(dash'.view.date_filter, DATA_FILE[i].timestamp, now))
                 => has_record(dash'.critical, i)
            /\ \A k \in 1..Len(dash'.critical) : dash'.critical[k].rating <= 2]_vars

\* A run that read the store has produced a critical export holding the
\* store's critical record and leaving out its other record.
C8_Witness ==
    /\ dash.status = "ok"
    /\ dash.at = cache.at
    /\ Len(DATA_FILE) = 2
    /\ dash.df = load_data_body(DATA_FILE)
    /\ Len(dash.critical) = 1
    /\ \E i \in 1..2 : DATA_FILE[i].rating = 2 /\ has_record(dash.critical, i)
    /\ \E i \in 1..2 : DATA_FILE[i].rating = 3 /\ ~has_record(dash.critical, i)

-----------------------------------------------------------------------------
(* Properties of concurrent submissions.                                   *)

\* Session u has reported success.
succeeded(u) == sess[u].pc = "idle" /\ sess[u].outcome = "ok"

\* C9: appends are not serialized.  Whenever two sessions have both
\* reported success after reading the same contents of the file (both read
\* before either wrote), the store holds one record more than they read,
\* not two: one of the two appends is lost.
C9_LostAppend ==
    \A u, v \in Users :
        (u # v /\ succeeded(u) /\ succeeded(v) /\ sess[u].df = sess[v].df)
        => Len(DATA_FILE) = Len(sess[u].df) + 1

\* Both sessions have reported success with different replies, both read
\* the empty file, and the store holds the record of one of them alone.
C9_Witness ==
    /\ succeeded("u1") /\ succeeded("u2")
    /\ sess["u1"].df = <<>> /\ sess["u2"].df = <<>>
    /\ sess["u1"].reply # sess["u2"].reply
    /\ Len(DATA_FILE) = 1
    /\ DATA_FILE[1].ai_response = to_csv_cell(sess["u2"].reply)
    /\ DATA_FILE[1].ai_response # to_csv_cell(sess["u1"].reply)

-----------------------------------------------------------------------------
(* Properties of the dashboard's cache.                                    *)

-----------------------------------------------------------------------------
(* Properties of the clear-all control.                                    *)

\* C11: clear-all is a two-step protocol. A step empties a store that held
\* records only if it is the run caused by the click on Confirm Delete (a
\* button drawn only by the run that the click on Clear All Data caused);
\* the run caused by the click on Clear All Data leaves the store as it
\* was; and the run caused by the click on Confirm Delete, which follows
\* the click on Clear All Data, leaves the store empty.
C11_TwoStepClear ==
    [][/\ (DATA_FILE # <<>> /\ DATA_FILE' = <<>>) => AdminRunBy("confirm")
       /\ AdminRunBy("clear") => DATA_FILE' = DATA_FILE
       /\ AdminRunBy("confirm") => DATA_FILE' = <<>>]_vars

====
